---- MODULE Spec2Model ----
(***************************************************************************)
(* A model of python-qr: qrscanner.py (webcam -> QR payload -> clipboard)  *)
(* and qrmaker.py (clipboard -> QR image staged at QRFile.TMP -> viewer -> *)
(* move/remove).  A run is one of four programs, chosen in Init:           *)
(*   "qrscanner"  the __main__ block of qrscanner.py,                      *)
(*   "zbar"       a script that builds a ZbarWebcam, runs capture_data and *)
(*                then write_to_file,                                      *)
(*   "qrmaker"    the __main__ block of qrmaker.py,                        *)
(*   "client"     code that calls the public methods of the two modules'   *)
(*                classes directly, one call after the other.              *)
(* Text is a sequence of code points, bytes a sequence of 0..255.          *)
(***************************************************************************)
EXTENDS Integers, Sequences, FiniteSets, TLC

\* ------------------------------------------------------------- bounds

\* stream.read() calls one scan may make
MaxPulls == 3
\* method calls the client program makes
MaxCalls == 4
\* chunks the copy of one image file takes (shutil.copyfileobj)
ImgLen == 2

\* ------------------------------------------------------------- values

\* Python's None where a text is expected (no code point is negative)
None == <<-1>>

\* "A", "B", "XYZ123" and the empty text, as code points
TxtA == <<65>>
TxtB == <<66>>
TxtXYZ123 == <<88, 89, 90, 49, 50, 51>>
TxtEmpty == <<>>
\* `if self.data` as it would be without the test
TruthyTextAlways(t) == TRUE

\* `if self.data`: a str is true unless it is empty
TruthyText(t) == t # TxtEmpty

\* the bytes a decoded symbol carries (o.data); BytesEAcute is the two-byte
\* UTF-8 form of U+00E9, BytesBad is no UTF-8 at all
BytesA == <<65>>
BytesB == <<66>>
BytesXYZ123 == <<88, 89, 90, 49, 50, 51>>
BytesEAcute == <<195, 169>>
BytesBad == <<255>>
BytesEmpty == <<>>

\* A frame is what pyzbar.decode finds in it: the sequence of its symbols'
\* data, in the decoder's order.  NoFrame is the None that stream.read()
\* returns with ret = False (no byte is negative).
NoFrame == <<<<-1>>>>
Frames ==
    { <<>>,
      <<BytesA>>, <<BytesA, BytesB>>, <<BytesB, BytesA>>,
      <<BytesXYZ123>>, <<BytesEmpty>>, <<BytesEAcute>>, <<BytesBad>> }

\* the capture devices: index 0 is a webcam, index 1 is no device
Devices == {0, 1}
DevicePresent(d) == d = 0

\* bytes.decode("utf-8"), for one- and two-byte sequences:
\* [ok |-> TRUE, txt |-> the text] or ok = FALSE for UnicodeDecodeError
RECURSIVE Utf8Decode(_)
Utf8Decode(bs) ==
    IF Len(bs) = 0 THEN [ok |-> TRUE, txt |-> <<>>]
    ELSE IF bs[1] < 128
    THEN LET rest == Utf8Decode(Tail(bs))
         IN  [ok |-> rest.ok, txt |-> <<bs[1]>> \o rest.txt]
    ELSE IF bs[1] >= 194 /\ bs[1] <= 223 /\ Len(bs) >= 2
            /\ bs[2] >= 128 /\ bs[2] <= 191
    THEN LET rest == Utf8Decode(Tail(Tail(bs)))
         IN  [ok |-> rest.ok,
              txt |-> <<(bs[1] - 192) * 64 + (bs[2] - 128)>> \o rest.txt]
    ELSE [ok |-> FALSE, txt |-> <<>>]

NoExc == "none"

\* line 87 as it would be if it indexed the decoder's list
DecodeFrameRaisesOnEmpty(frame) ==
    IF frame = NoFrame THEN [exc |-> "TypeError", val |-> <<>>]
    ELSE IF Len(frame) = 0 THEN [exc |-> "IndexError", val |-> <<>>]
    ELSE IF \E i \in 1..Len(frame) : ~Utf8Decode(frame[i]).ok
    THEN [exc |-> "UnicodeDecodeError", val |-> <<>>]
    ELSE [exc |-> NoExc, val |-> [i \in 1..Len(frame) |-> Utf8Decode(frame[i]).txt]]

\* [o.data.decode("utf-8") for o in pyzbar.decode(frame)]:
\* [exc |-> NoExc, val |-> the list] or the exception the line raises.
\* pyzbar.decode(None) raises TypeError.
DecodeFrame(frame) ==
    IF frame = NoFrame THEN [exc |-> "TypeError", val |-> <<>>]
    ELSE IF \E i \in 1..Len(frame) : ~Utf8Decode(frame[i]).ok
    THEN [exc |-> "UnicodeDecodeError", val |-> <<>>]
    ELSE [exc |-> NoExc, val |-> [i \in 1..Len(frame) |-> Utf8Decode(frame[i]).txt]]

\* the attributes a WindowsQrScanner instance resolves (its classes' methods
\* along the MRO WindowsQrScanner, ZbarWebcam, WebcamCapture, WindowsClipboard)
WindowsQrScannerAttrs ==
    { "__init__", "set_clipboard", "set_capture_device", "capture_data",
      "set_data", "write_to_file" }

\* ------------------------------------------------------------- state

VARIABLES
    entry,          \* which program runs
    spc,            \* qrscanner: where the run is
    capture_device, \* self.capture_device
    camOpen,        \* the capture device is held by the VideoCapture
    frame,          \* the frame just read
    obj,            \* capture_data's obj
    data,           \* self.data, None while unassigned
    pulled,         \* the frames read so far, in order
    sexc,           \* the exception that ended the scanner run, or NoExc
    printed,        \* "Exiting scanner..." was printed
    filepath,       \* self.filepath, "unset" before WebcamCapture.__init__
    outFile         \* the text of the file at ScanPath, None when no file

svars == <<spc, capture_device, camOpen, frame, obj, data, pulled, sexc, printed,
           filepath, outFile>>

VARIABLES
    TMP,        \* QRFile.TMP, set once when the class is defined
    fs,         \* the files
    staging,    \* the staging path of each export so far, in order
    status,     \* per instance: "none", "staged" (exported, not finalized),
                \* "finalized" (its cleanup_file_data succeeded)
    clipText,   \* the text on the OS clipboard, None when it holds no text
    clipOpen,   \* this process has the clipboard open
    clipLog,    \* the win32clipboard calls of the current access, in order
    pc,         \* qrmaker / client: where the run is
    calls,      \* client: calls made
    call        \* the call running or last finished

fvars == <<TMP, fs, staging, status>>
cvars == <<clipText, clipOpen, clipLog>>
pvars == <<pc, calls, call>>
allvars == <<entry, svars, fvars, cvars, pvars>>


\* --------------------------------------------------------- qrscanner

\* the scanner script starts at its banner print (line 131); a script that
\* drives ZbarWebcam itself starts at the constructor call
ScanInit ==
    /\ spc = (IF entry = "qrscanner" THEN "banner" ELSE "main")
    /\ capture_device \in Devices
    /\ camOpen = FALSE
    /\ frame = NoFrame
    /\ obj = <<>>
    /\ data = None
    /\ pulled = <<>>
    /\ sexc = NoExc
    /\ printed = FALSE
    /\ filepath = "unset"
    /\ outFile = None

\* the programs that scan
ScanEntries == {"qrscanner", "zbar"}

\* the filepath argument: None (the default) or a file path
ScanPath == "C:/scan.txt"
FilepathArgs == {"None", "", ScanPath}
\* line 49: `filepath if filepath else ...`, the truth value of the argument
TruthyPath(arg) == arg \notin {"None", ""}
\* path.join(Path.home(), "Downloads"), a directory
DownloadsDir == "~/Downloads"

\* WebcamCapture.__init__, lines 48-50
ResolveFilepath(arg) == IF TruthyPath(arg) THEN arg ELSE DownloadsDir

\* lines 131-141: the banner, printed before the try statement is entered
PrintBanner ==
    /\ entry = "qrscanner" /\ spc = "banner"
    /\ spc' = "main"
    /\ UNCHANGED <<fvars, cvars, pvars, entry, capture_device, camOpen, frame, obj, data, pulled, sexc, printed, filepath, outFile>>

\* WindowsQrScanner.__init__, lines 114-115 (for "zbar": ZbarWebcam(filepath)
\* and set_capture_device)
ScannerConstruct ==
    /\ entry \in ScanEntries /\ spc = "main"
    /\ \E arg \in FilepathArgs : filepath' = ResolveFilepath(arg)
    /\ spc' = "capture_data"
    /\ UNCHANGED <<fvars, cvars, pvars, entry, capture_device, camOpen, frame, obj, data, pulled, sexc, printed, outFile>>

\* capture_data, lines 79-80
VideoCaptureOpen ==
    /\ entry \in ScanEntries /\ spc = "capture_data"
    /\ camOpen' = DevicePresent(capture_device)
    /\ obj' = <<>>
    /\ spc' = "while"
    /\ UNCHANGED <<fvars, cvars, pvars, entry, capture_device, frame, data, pulled, sexc, printed, filepath, outFile>>

\* line 83: not len(obj)
LoopContinues(o) == Len(o) = 0

\* line 83
WhileTest ==
    /\ entry \in ScanEntries /\ spc = "while"
    /\ spc' = IF LoopContinues(obj) THEN "read" ELSE "assign"
    /\ UNCHANGED <<fvars, cvars, pvars, entry, capture_device, camOpen, frame, obj, data, pulled, sexc, printed, filepath, outFile>>

\* line 85: a device that was not opened yields no frame
StreamRead ==
    /\ entry \in ScanEntries /\ spc = "read"
    /\ Len(pulled) < MaxPulls
    /\ \E f \in (IF camOpen THEN Frames \cup {NoFrame} ELSE {NoFrame}) :
          /\ frame' = f
          /\ pulled' = Append(pulled, f)
    /\ spc' = "decode"
    /\ UNCHANGED <<fvars, cvars, pvars, entry, capture_device, camOpen, obj, data, sexc, printed, filepath, outFile>>

\* line 87
PyzbarDecode ==
    /\ entry \in ScanEntries /\ spc = "decode"
    /\ LET r == DecodeFrame(frame)
       IN  IF r.exc # NoExc
           THEN /\ spc' = "crashed" /\ sexc' = r.exc /\ obj' = obj
           ELSE /\ spc' = "while" /\ sexc' = sexc /\ obj' = r.val
    /\ UNCHANGED <<fvars, cvars, pvars, entry, capture_device, camOpen, frame, data, pulled, printed, filepath, outFile>>

\* line 90: obj[0]
FirstPayloadTakesLast(o) == o[Len(o)]

FirstPayload(o) == o[1]

\* line 90; capture_data returns
AssignData ==
    /\ entry \in ScanEntries /\ spc = "assign"
    /\ data' = FirstPayload(obj)
    /\ spc' = "publish"
    /\ UNCHANGED <<fvars, cvars, pvars, entry, capture_device, camOpen, frame, obj, pulled, sexc, printed, filepath, outFile>>

\* lines 120-121: self.set_data_to_clipboard is no attribute of the instance
Publish ==
    /\ entry = "qrscanner" /\ spc = "publish"
    /\ IF TruthyText(data) /\ "set_data_to_clipboard" \notin WindowsQrScannerAttrs
       THEN /\ spc' = "crashed" /\ sexc' = "AttributeError"
       ELSE /\ spc' = "done" /\ sexc' = sexc
    /\ UNCHANGED <<fvars, cvars, pvars, entry, capture_device, camOpen, frame, obj, data, pulled, printed, filepath, outFile>>

\* the statements of WindowsQrScanner(), line 144: all run inside the try
InTry == {"main", "capture_data", "while", "read", "decode", "assign", "publish"}

\* lines 143-146 without the except clause
KeyboardInterruptUncaught ==
    /\ entry = "qrscanner"
    /\ spc \in InTry
    /\ spc' = "crashed"
    /\ sexc' = "KeyboardInterrupt"
    /\ UNCHANGED <<fvars, cvars, pvars, entry, capture_device, camOpen, frame, obj, data, pulled, printed, filepath, outFile>>

\* lines 143-146: Ctrl-C anywhere inside WindowsQrScanner() is caught and
\* the handler is entered
KeyboardInterrupt ==
    /\ entry = "qrscanner"
    /\ spc \in InTry
    /\ spc' = "except"
    /\ sexc' = "KeyboardInterrupt"
    /\ UNCHANGED <<fvars, cvars, pvars, entry, capture_device, camOpen, frame, obj, data, pulled, printed, filepath, outFile>>

\* line 147: the handler prints and the script ends
PrintExiting ==
    /\ entry = "qrscanner" /\ spc = "except"
    /\ spc' = "done"
    /\ printed' = TRUE
    /\ UNCHANGED <<fvars, cvars, pvars, entry, capture_device, camOpen, frame, obj, data, pulled, sexc, filepath, outFile>>

\* Ctrl-C during the banner print, lines 131-141: the try statement is not
\* entered yet, the KeyboardInterrupt ends the script uncaught
KeyboardInterruptAtBanner ==
    /\ entry = "qrscanner" /\ spc = "banner"
    /\ spc' = "crashed"
    /\ sexc' = "KeyboardInterrupt"
    /\ UNCHANGED <<fvars, cvars, pvars, entry, capture_device, camOpen, frame, obj, data, pulled, printed, filepath, outFile>>

\* Ctrl-C while the handler runs, line 147: nothing catches it; it is raised
\* before the print call or on return from it, so the message may or may not
\* have been written
KeyboardInterruptInHandler ==
    /\ entry = "qrscanner" /\ spc = "except"
    /\ spc' = "crashed"
    /\ printed' \in BOOLEAN
    /\ UNCHANGED <<fvars, cvars, pvars, entry, capture_device, camOpen, frame, obj, data, pulled, sexc, filepath, outFile>>

\* capture_data never calls stream.release(): the device is given back only
\* when the interpreter finalizes the unreachable VideoCapture, which it may
\* do at any time after capture_data's frame is gone, or not before exit
GcFinalizeStream ==
    /\ entry \in ScanEntries
    /\ spc \in {"publish", "done", "crashed"}
    /\ camOpen
    /\ camOpen' = FALSE
    /\ UNCHANGED <<fvars, cvars, pvars, entry, spc, capture_device, frame, obj, data, pulled, sexc, printed, filepath, outFile>>

\* for line in self.data: file.write(line), on a str: its characters, one
\* write each (texts without line breaks)
RECURSIVE WriteLines(_, _)
WriteLines(content, d) ==
    IF Len(d) = 0 THEN content ELSE WriteLines(Append(content, d[1]), Tail(d))

\* write_to_file, lines 59-62, called by the script after capture_data:
\* open(self.filepath, "w+") fails on the Downloads directory, and otherwise
\* truncates the file before the writes
WriteToFile ==
    /\ entry = "zbar" /\ spc = "publish"
    /\ IF filepath = DownloadsDir
       THEN /\ spc' = "crashed" /\ sexc' = "PermissionError" /\ outFile' = outFile
       ELSE /\ spc' = "done" /\ sexc' = sexc /\ outFile' = WriteLines(<<>>, data)
    /\ UNCHANGED <<fvars, cvars, pvars, entry, capture_device, camOpen, frame, obj, data, pulled, printed, filepath>>

ScannerNext ==
    \/ PrintBanner
    \/ PrintExiting
    \/ KeyboardInterruptAtBanner
    \/ KeyboardInterruptInHandler
    \/ WriteToFile
    \/ ScannerConstruct
    \/ VideoCaptureOpen
    \/ WhileTest
    \/ StreamRead
    \/ PyzbarDecode
    \/ AssignData
    \/ Publish
    \/ KeyboardInterrupt
    \/ GcFinalizeStream

\* ------------------------------------------------------- file system

\* The names tempfile may give QRFile.TMP, and the save_to paths: one on
\* the volume of the temporary directory, one on another volume.
TmpNames == {"C:/Temp/tmp1", "C:/Temp/tmp2"}
DestPaths == {"C:/qr.png", "D:/qr.png"}
Paths == TmpNames \cup DestPaths
Volume(p) == IF p = "D:/qr.png" THEN "D" ELSE "C"

\* A file is the image it holds and how many of the image's ImgLen chunks
\* have been written; Absent is no file.
Absent == [data |-> None, kind |-> "absent", len |-> 0]
File(d, k) == [data |-> d, kind |-> k, len |-> ImgLen]
Exists(f) == f.kind # "absent"
Complete(f) == Exists(f) /\ f.len = ImgLen

\* export's img_type arguments: the two ImageType members, the plain string
\* 'png' (no .value), and a member of another Enum whose value is 'eps'
ImgTypes == {"ImageType.PNG", "ImageType.SVG", "str.png", "Other.EPS"}
HasValue(t) == t # "str.png"
ValueOf(t) ==
    CASE t = "ImageType.PNG" -> "png"
      [] t = "ImageType.SVG" -> "svg"
      [] t = "Other.EPS" -> "eps"
      [] OTHER -> "none"
\* the writer methods of a pyqrcode.QRCode that take (file, scale)
QRCodeWriters == {"png", "svg", "eps"}
\* the formats PIL's Image.open identifies
PilFormats == {"png", "eps"}

\* the QRFile instances of the client, and what it exports
Insts == {1, 2}
ExportData == {TxtA, TxtB}
\* the context manager object that self.clipboard() returns: no text
ContextManager == <<-2>>

\* cleanup_file_data's save_to: None, the empty string, or a path
SaveTos == {"None", ""} \cup DestPaths
Truthy(save_to) == save_to \notin {"None", ""}

\* line 43: move(self.TMP, save_to) if save_to else remove(self.TMP)
CleanupChoiceAlwaysRemove(save_to) == "remove"

CleanupChoice(save_to) == IF Truthy(save_to) THEN "move" ELSE "remove"

\* os.rename(src, dst) on Windows: atomic, and an OSError when src is
\* missing, dst exists or dst is on another volume
RenameWorks(files, src, dst) ==
    /\ Exists(files[src])
    /\ ~Exists(files[dst])
    /\ Volume(src) = Volume(dst)

NoCall == [op |-> "none", inst |-> 0, arg |-> "None", txt |-> None,
           exc |-> NoExc, pre |-> Absent, second |-> FALSE]
Running == "running"

\* QRFile.TMP = TemporaryFile().name, line 22: a fresh name, whose file is
\* deleted as soon as the unreferenced file object is closed
FilesInit ==
    /\ TMP \in TmpNames
    /\ fs = [p \in Paths |-> Absent]
    /\ staging = <<>>
    /\ status = [i \in Insts |-> "none"]
    /\ clipText \in {TxtB, None}
    /\ clipOpen = FALSE
    /\ clipLog = <<>>
    /\ calls = 0
    /\ call = NoCall

\* --------------------------------------------------- QRFile, as called

\* export, line 30: create(data), then img_type.value, then the writer
\* method of that name, which writes the image to self.TMP
ExportExcNever(t) == NoExc

ExportExc(t) ==
    IF ~HasValue(t) THEN "AttributeError"
    ELSE IF ValueOf(t) \notin QRCodeWriters THEN "AttributeError"
    ELSE NoExc

\* line 30, create(data), evaluated first: pyqrcode tests str(data) for
\* digits and for its alphanumeric table, then calls data.encode('shiftjis')
\* on data that is not bytes; an object without .encode (whose str() is not
\* all digits or all table characters, as the repr of an object is not)
\* raises AttributeError there
HasEncode(d) == d \notin {None, ContextManager}
CreateExc(d) == IF HasEncode(d) THEN NoExc ELSE "AttributeError"

Line30Exc(d, t) == IF CreateExc(d) # NoExc THEN CreateExc(d) ELSE ExportExc(t)

DoExport(i, d, t) ==
    IF Line30Exc(d, t) # NoExc
    THEN /\ call' = [op |-> "export", inst |-> i, arg |-> t, txt |-> d,
                     exc |-> Line30Exc(d, t), pre |-> fs[TMP], second |-> FALSE]
         /\ UNCHANGED fvars
    ELSE /\ fs' = [fs EXCEPT ![TMP] = File(d, ValueOf(t))]
         /\ staging' = Append(staging, TMP)
         /\ status' = [status EXCEPT ![i] = "staged"]
         /\ call' = [op |-> "export", inst |-> i, arg |-> t, txt |-> d,
                     exc |-> NoExc, pre |-> fs[TMP], second |-> FALSE]
         /\ UNCHANGED TMP

\* open_file, line 38: Image.open(self.TMP).show()
OpenFileExcs ==
    IF ~Exists(fs[TMP]) THEN {"FileNotFoundError"}
    ELSE IF fs[TMP].kind \notin PilFormats THEN {"UnidentifiedImageError"}
    ELSE {NoExc, "OSError"}

DoOpenFile(i) ==
    /\ \E e \in OpenFileExcs :
          call' = [op |-> "open_file", inst |-> i, arg |-> "None", txt |-> None,
                   exc |-> e, pre |-> fs[TMP], second |-> FALSE]
    /\ UNCHANGED fvars

ClientExport ==
    /\ entry = "client" /\ pc = "idle" /\ calls < MaxCalls
    /\ \E i \in Insts, d \in ExportData, t \in ImgTypes : DoExport(i, d, t)
    /\ calls' = calls + 1
    /\ UNCHANGED <<entry, svars, cvars, pc>>

ClientOpenFile ==
    /\ entry = "client" /\ pc = "idle" /\ calls < MaxCalls
    /\ \E i \in Insts : DoOpenFile(i)
    /\ calls' = calls + 1
    /\ UNCHANGED <<entry, svars, cvars, pc>>

\* cleanup_file_data, line 43, up to the return of remove or of os.rename;
\* when os.rename fails, shutil.move copies: copy2 opens src (missing: the
\* error), then creates or truncates dst
ClientCleanup ==
    /\ entry = "client" /\ pc = "idle" /\ calls < MaxCalls
    /\ calls' = calls + 1
    /\ \E i \in Insts, save_to \in SaveTos :
        LET c == [op |-> "cleanup_file_data", inst |-> i, arg |-> save_to,
                  txt |-> None, exc |-> NoExc, pre |-> fs[TMP],
                  second |-> (status[i] = "finalized")]
        IN
        IF CleanupChoice(save_to) = "remove"
        THEN IF Exists(fs[TMP])
             THEN /\ fs' = [fs EXCEPT ![TMP] = Absent]
                  /\ status' = [status EXCEPT ![i] = "finalized"]
                  /\ call' = c
                  /\ pc' = pc
             ELSE /\ call' = [c EXCEPT !.exc = "FileNotFoundError"]
                  /\ UNCHANGED <<fs, status, pc>>
        ELSE IF RenameWorks(fs, TMP, save_to)
             THEN /\ fs' = [fs EXCEPT ![save_to] = fs[TMP], ![TMP] = Absent]
                  /\ status' = [status EXCEPT ![i] = "finalized"]
                  /\ call' = c
                  /\ pc' = pc
             ELSE IF ~Exists(fs[TMP])
             THEN /\ call' = [c EXCEPT !.exc = "FileNotFoundError"]
                  /\ UNCHANGED <<fs, status, pc>>
             ELSE /\ fs' = [fs EXCEPT ![save_to] = [fs[TMP] EXCEPT !.len = 0]]
                  /\ call' = [c EXCEPT !.exc = Running]
                  /\ pc' = "mv_copy"
                  /\ UNCHANGED status
    /\ UNCHANGED <<entry, svars, cvars, TMP, staging>>

\* shutil.move's copy: one chunk of src written to dst
MoveCopyChunk ==
    /\ entry = "client" /\ pc = "mv_copy"
    /\ fs[call.arg].len < ImgLen
    /\ fs' = [fs EXCEPT ![call.arg].len = @ + 1]
    /\ UNCHANGED <<entry, svars, cvars, TMP, staging, status, pvars>>

\* shutil.move's os.unlink(src) after the copy; cleanup_file_data returns
MoveUnlink ==
    /\ entry = "client" /\ pc = "mv_copy"
    /\ fs[call.arg].len = ImgLen
    /\ fs' = [fs EXCEPT ![TMP] = Absent]
    /\ status' = [status EXCEPT ![call.inst] = "finalized"]
    /\ call' = [call EXCEPT !.exc = NoExc]
    /\ pc' = "idle"
    /\ UNCHANGED <<entry, svars, cvars, TMP, staging, calls>>

\* ------------------------------------------------ clipboard, as called

\* the texts the client sets
ClipData == {TxtA, TxtXYZ123}

ClipCall(op, d, e) ==
    [op |-> op, inst |-> 0, arg |-> "None", txt |-> d, exc |-> e,
     pre |-> Absent, second |-> FALSE]

\* WindowsClipboard.set_clipboard, line 99: OpenClipboard(), which raises
\* when the clipboard cannot be opened
SetClipboardOpen ==
    /\ entry = "client" /\ pc = "idle" /\ calls < MaxCalls
    /\ calls' = calls + 1
    /\ \E d \in ClipData, ok \in BOOLEAN :
          IF ok
          THEN /\ clipOpen' = TRUE
               /\ clipLog' = <<"OpenClipboard">>
               /\ call' = ClipCall("set_clipboard", d, Running)
               /\ pc' = "sc_empty"
          ELSE /\ clipLog' = <<>>
               /\ call' = ClipCall("set_clipboard", d, "ClipboardError")
               /\ UNCHANGED <<clipOpen, pc>>
    /\ UNCHANGED <<entry, svars, fvars, clipText>>

\* set_clipboard as it would be without line 100
SetClipboardEmptySkipped ==
    /\ entry = "client" /\ pc = "sc_empty"
    /\ pc' = "sc_set"
    /\ UNCHANGED <<entry, svars, fvars, cvars, calls, call>>

\* line 100: EmptyClipboard(); an exception leaves set_clipboard at once
SetClipboardEmpty ==
    /\ entry = "client" /\ pc = "sc_empty"
    /\ \E ok \in BOOLEAN :
          IF ok
          THEN /\ clipText' = None
               /\ clipLog' = Append(clipLog, "EmptyClipboard")
               /\ pc' = "sc_set"
               /\ call' = call
          ELSE /\ call' = [call EXCEPT !.exc = "ClipboardError"]
               /\ pc' = "idle"
               /\ UNCHANGED <<clipText, clipLog>>
    /\ UNCHANGED <<entry, svars, fvars, clipOpen, calls>>

\* line 101: SetClipboardText(data, CF_UNICODETEXT)
SetClipboardSetText ==
    /\ entry = "client" /\ pc = "sc_set"
    /\ \E ok \in BOOLEAN :
          IF ok
          THEN /\ clipText' = call.txt
               /\ clipLog' = Append(clipLog, "SetClipboardText")
               /\ pc' = "sc_close"
               /\ call' = call
          ELSE /\ call' = [call EXCEPT !.exc = "ClipboardError"]
               /\ pc' = "idle"
               /\ UNCHANGED <<clipText, clipLog>>
    /\ UNCHANGED <<entry, svars, fvars, clipOpen, calls>>

\* line 102: CloseClipboard(); set_clipboard returns
SetClipboardClose ==
    /\ entry = "client" /\ pc = "sc_close"
    /\ clipOpen' = FALSE
    /\ clipLog' = Append(clipLog, "CloseClipboard")
    /\ call' = [call EXCEPT !.exc = NoExc]
    /\ pc' = "idle"
    /\ UNCHANGED <<entry, svars, fvars, clipText, calls>>

\* `with WindowsQRFile().clipboard() as text:`, __enter__ runs the generator
\* to its yield.  Line 60: OpenClipboard()
ClipboardEnterOpen ==
    /\ entry = "client" /\ pc = "idle" /\ calls < MaxCalls
    /\ calls' = calls + 1
    /\ \E ok \in BOOLEAN :
          IF ok
          THEN /\ clipOpen' = TRUE
               /\ clipLog' = <<"OpenClipboard">>
               /\ call' = ClipCall("clipboard", None, Running)
               /\ pc' = "cm_get"
          ELSE /\ clipLog' = <<>>
               /\ call' = ClipCall("clipboard", None, "ClipboardError")
               /\ UNCHANGED <<clipOpen, pc>>
    /\ UNCHANGED <<entry, svars, fvars, clipText>>

\* line 61: GetClipboardData(), a TypeError when the clipboard holds no
\* text; the value is yielded to the with statement
ClipboardEnterGet ==
    /\ entry = "client" /\ pc = "cm_get"
    /\ IF clipText = None
       THEN /\ call' = [call EXCEPT !.exc = "TypeError"]
            /\ pc' = "idle"
            /\ clipLog' = clipLog
       ELSE /\ call' = [call EXCEPT !.txt = clipText]
            /\ clipLog' = Append(clipLog, "GetClipboardData")
            /\ pc' = "cm_body"
    /\ UNCHANGED <<entry, svars, fvars, clipText, clipOpen, calls>>

\* the body of the with statement ends, or raises: __exit__ throws the
\* exception into the generator at line 61, which has no try around the
\* yield, so the exception leaves the generator before line 62
ClipboardBody ==
    /\ entry = "client" /\ pc = "cm_body"
    /\ \E ok \in BOOLEAN :
          IF ok
          THEN /\ pc' = "cm_close" /\ call' = call
          ELSE /\ pc' = "idle" /\ call' = [call EXCEPT !.exc = "BodyError"]
    /\ UNCHANGED <<entry, svars, fvars, cvars, calls>>

\* line 62: CloseClipboard(), on the normal exit of the with statement
ClipboardExitClose ==
    /\ entry = "client" /\ pc = "cm_close"
    /\ clipOpen' = FALSE
    /\ clipLog' = Append(clipLog, "CloseClipboard")
    /\ call' = [call EXCEPT !.exc = NoExc]
    /\ pc' = "idle"
    /\ UNCHANGED <<entry, svars, fvars, clipText, calls>>

ClientNext ==
    \/ ClientExport
    \/ ClientOpenFile
    \/ ClientCleanup
    \/ MoveCopyChunk
    \/ MoveUnlink
    \/ SetClipboardOpen
    \/ SetClipboardEmpty
    \/ SetClipboardSetText
    \/ SetClipboardClose
    \/ ClipboardEnterOpen
    \/ ClipboardEnterGet
    \/ ClipboardBody
    \/ ClipboardExitClose

\* ----------------------------------------------------------- qrmaker

\* line 52, the argument: self.clipboard() only builds the context manager
\* object; no line of clipboard() runs, as nothing enters it
MakerClipboardCall ==
    /\ entry = "qrmaker" /\ pc = "mk_main"
    /\ pc' = "mk_export"
    /\ UNCHANGED <<entry, svars, fvars, cvars, calls, call>>

\* line 52, the call: export(<context manager>), img_type = ImageType.PNG.
\* create() raises on the object, nothing is staged, and the uncaught
\* exception ends the script: lines 53 and 54 are never reached
MakerExport ==
    /\ entry = "qrmaker" /\ pc = "mk_export"
    /\ DoExport(1, ContextManager, "ImageType.PNG")
    /\ pc' = IF call'.exc = NoExc THEN "mk_open" ELSE "mk_crashed"
    /\ UNCHANGED <<entry, svars, cvars, calls>>

MakerNext ==
    \/ MakerClipboardCall
    \/ MakerExport

\* ------------------------------------------------------------- whole

vars == allvars

\* each program starts with the other programs' inputs at fixed values
Init ==
    /\ entry \in {"qrscanner", "zbar", "qrmaker", "client"}
    /\ ScanInit
    /\ FilesInit
    /\ pc = IF entry = "qrmaker" THEN "mk_main" ELSE "idle"
    /\ entry \notin ScanEntries => capture_device = 0
    /\ entry \in ScanEntries => TMP = "C:/Temp/tmp1"
    /\ entry = "zbar" => clipText = None

Next ==
    \/ ScannerNext
    \/ ClientNext
    \/ MakerNext

Spec == Init /\ [][Next]_vars

\* ------------------------------------------------------------ claims

ScanInterrupted == sexc = "KeyboardInterrupt"
LastPulled == pulled[Len(pulled)]
AllPulledEmpty == \A k \in 1..Len(pulled) : pulled[k] = <<>>

\* C1: capture_data ends on the first frame whose decode list is not empty
\* and self.data is that list's first element, also when the list is longer
\* (["A","B"] gives "A"); no frame is pulled after that frame.  As an
\* invariant over the frames read so far: every frame before the last one
\* decoded to the empty list, a further read is only ever due when all
\* frames so far decoded to the empty list, and once self.data is assigned
\* it is the UTF-8 text of the first symbol of the last frame read.
C1_FirstNonEmptyFrameWins ==
    entry = "qrscanner" =>
      /\ \A k \in 1..(Len(pulled) - 1) : pulled[k] = <<>>
      /\ spc = "read" => AllPulledEmpty
      /\ data # None =>
            /\ Len(pulled) >= 1
            /\ LastPulled # NoFrame
            /\ Len(LastPulled) >= 1
            /\ data = Utf8Decode(LastPulled[1]).txt
            /\ spc \in {"publish", "except", "done", "crashed"}
      /\ (Len(pulled) >= 1 /\ LastPulled = <<BytesA, BytesB>>
          /\ spc \in {"publish", "done", "crashed"} /\ ~ScanInterrupted)
            => data = TxtA

C1_Witness ==
    /\ entry = "qrscanner" /\ spc = "publish"
    /\ pulled = << <<>>, <<BytesA, BytesB>> >>
    /\ data = TxtA

\* C2: every clipboard access closes the clipboard on every exit path: when
\* set_clipboard or the clipboard() context has returned or raised, the
\* clipboard is not left open.
C2_ClipboardClosedOnEveryExit ==
    (entry = "client" /\ pc = "idle" /\ call.op \in {"set_clipboard", "clipboard"})
      => ~clipOpen

\* C3: with the frames [no symbol, no symbol, "XYZ123"], the scanner run
\* ends with the clipboard holding exactly "XYZ123".
C3_ScanEndsWithPayloadOnClipboard ==
    (/\ entry = "qrscanner"
     /\ spc \in {"done", "crashed"}
     /\ ~ScanInterrupted
     /\ pulled = << <<>>, <<>>, <<BytesXYZ123>> >>)
      => clipText = TxtXYZ123

C5_EmptyFramesKeepScanning ==
    (/\ entry = "qrscanner"
     /\ Len(pulled) >= 1
     /\ AllPulledEmpty
     /\ ~ScanInterrupted)
      => /\ spc \in {"decode", "while", "read"}
         /\ obj = <<>>
         /\ data = None
         /\ sexc = NoExc

C5_Witness ==
    /\ entry = "qrscanner" /\ spc = "read"
    /\ pulled = << <<>>, <<>>, <<>> >>
    /\ data = None

MakerEnded == entry = "qrmaker" /\ pc = "mk_crashed"

\* C6: in make_qrcode_from_clipboard the cleanup of the staged file runs
\* exactly once on every exit path: when the run has ended, the finalize
\* call has been made and has returned, and no staged file is left at the
\* staging path unfinalized.
C6_MakerRunCleansUpOnEveryExit ==
    MakerEnded
      => /\ call.op = "cleanup_file_data" /\ call.exc = NoExc
         /\ ~(Exists(fs[TMP]) /\ status[1] = "staged")

CleanupReturned ==
    /\ entry = "client" /\ pc = "idle"
    /\ call.op = "cleanup_file_data" /\ call.exc = NoExc

\* C7: cleanup_file_data finalizes the staged file by exactly one of two
\* actions.  With a save_to that is given (truthy), once the call has
\* returned the destination holds the complete content that was staged and
\* the staging path does not exist; with no save_to (None or ''), the call
\* that returns removes the file at the staging path and changes no other
\* path, so no destination file is created.
C7_CleanupMovesOrDeletes ==
    /\ [](CleanupReturned =>
            /\ Exists(call.pre)
            /\ ~Exists(fs[TMP])
            /\ Truthy(call.arg) => fs[call.arg] = call.pre /\ Complete(fs[call.arg]))
    /\ [][(/\ entry = "client" /\ pc = "idle" /\ calls' = calls + 1
           /\ call'.op = "cleanup_file_data" /\ call'.exc = NoExc
           /\ ~Truthy(call'.arg))
          => /\ Exists(fs[TMP])
             /\ fs' = [fs EXCEPT ![TMP] = Absent]
             /\ pc' = "idle"]_vars

C7_Witness ==
    /\ CleanupReturned
    /\ call.arg = "D:/qr.png"
    /\ fs["D:/qr.png"] = File(TxtA, "png")
    /\ ~Exists(fs[TMP])

\* C8: no staging path is used by two exports.
C8_NoStagingPathReused ==
    \A i, j \in 1..Len(staging) : i # j => staging[i] # staging[j]

\* C9: a cleanup_file_data on an instance whose staged file was already
\* finalized (and that has not exported again) fails with an error,
\* whatever other exports happened in between.
C9_SecondFinalizeFails ==
    (/\ entry = "client" /\ pc = "idle"
     /\ call.op = "cleanup_file_data" /\ call.second)
      => call.exc # NoExc

\* C10: at every step of a commit a destination path either holds no file
\* or holds a complete image, never fewer bytes than the staged content.
C10_DestinationNeverPartial ==
    \A p \in DestPaths : Exists(fs[p]) => Complete(fs[p])

\* C11: a frame pull that returns no frame is a retry signal, not an error:
\* while every pull so far gave no frame or a frame with no symbol, the scan
\* is still reading, decoding or at the loop test, and has raised nothing.
C11_NoFrameIsRetried ==
    (/\ entry = "qrscanner"
     /\ DevicePresent(capture_device)
     /\ Len(pulled) >= 1
     /\ \A k \in 1..Len(pulled) : pulled[k] \in {NoFrame, <<>>}
     /\ ~ScanInterrupted)
      => /\ spc \in {"decode", "while", "read"}
         /\ sexc = NoExc

\* C12: make_qrcode_from_clipboard encodes exactly the text the clipboard
\* holds when the workflow starts, and opens and closes the clipboard around
\* the read: once export has been called, the payload handed to it is the
\* clipboard text and the clipboard calls made are open, get, close.
C12_MakerEncodesClipboardText ==
    (entry = "qrmaker" /\ clipText # None /\ call.op = "export")
      => /\ call.txt = clipText
         /\ clipLog = <<"OpenClipboard", "GetClipboardData", "CloseClipboard">>

\* C13: with a destination file path supplied to the scanner, a completed
\* scan with payload p also writes p to that file: when the run has ended
\* with a non-empty self.data assigned, the file holds exactly self.data.
C13_ScannerWritesPayloadToFile ==
    (/\ entry = "qrscanner"
     /\ filepath = ScanPath
     /\ spc \in {"done", "crashed"}
     /\ ~ScanInterrupted
     /\ data # None /\ TruthyText(data))
      => outFile = data

ScanEnded == spc \in {"done", "crashed"}

\* C14: scanning a device index that has no camera ends with a
\* device-not-found failure (at open or at the first frame pull), and never
\* reports a payload: a run on such a device that has ended, other than by
\* an interrupt, ended with that failure, and self.data is never assigned.
C14_MissingDeviceReportsDeviceNotFound ==
    (entry = "qrscanner" /\ capture_device = 1)
      => /\ data = None
         /\ (ScanEnded /\ ~ScanInterrupted) => sexc = "DeviceNotFound"

\* C15 as stated: a keyboard interrupt at any point while the scanner entry
\* point runs is caught by it: the handler is entered, the run ends cleanly
\* with "Exiting scanner..." printed (and the message is printed for no
\* other reason), never as a crash, and no clipboard call has been made.
C15_InterruptExitsCleanly ==
    entry = "qrscanner" =>
      /\ ScanInterrupted =>
            /\ spc \in {"except", "done"}
            /\ spc = "done" => printed
            /\ clipLog = <<>>
            /\ ~clipOpen
      /\ printed => ScanInterrupted

\* C15, amended: a keyboard interrupt raised while WindowsQrScanner() runs
\* inside the try (construction, frame loop, publication) is caught: it
\* enters the handler, whose only step other than a further interrupt prints
\* "Exiting scanner..." and ends the run cleanly; a run that ends cleanly
\* after an interrupt has printed the message, the message is printed for no
\* other reason, and an interrupted run has made no clipboard call.  An
\* interrupt outside the try (at the banner, or in the handler) is not
\* caught.
C15_InterruptInsideTryExitsCleanly ==
    /\ [](entry = "qrscanner" =>
            /\ ScanInterrupted =>
                  /\ spc \in {"except", "done", "crashed"}
                  /\ spc = "done" => printed
                  /\ spc = "except" => ~printed
                  /\ clipLog = <<>>
                  /\ ~clipOpen
            /\ printed => ScanInterrupted)
    /\ [][(entry = "qrscanner" /\ spc \in InTry /\ ~ScanInterrupted
           /\ sexc' = "KeyboardInterrupt")
          => spc' = "except"]_vars
    /\ [][(entry = "qrscanner" /\ spc = "except")
          => \/ spc' = "done" /\ printed' /\ sexc' = "KeyboardInterrupt"
             \/ spc' = "crashed" /\ sexc' = "KeyboardInterrupt"]_vars
    /\ [][(entry = "qrscanner" /\ spc = "banner"
           /\ sexc' = "KeyboardInterrupt")
          => spc' = "crashed" /\ ~printed']_vars

C15_Witness ==
    /\ entry = "qrscanner"
    /\ ScanInterrupted /\ spc = "done" /\ printed
    /\ pulled = << <<>>, <<>> >>
    /\ clipLog = <<>>

ExportReturned == entry = "client" /\ call.op = "export"

\* C16, as claimed: export called with an img_type that is no member of
\* ImageType fails with an error and leaves the staging path as it was.
C16_NonMemberImgTypeFails ==
    (ExportReturned /\ call.arg \notin {"ImageType.PNG", "ImageType.SVG"})
      => /\ call.exc # NoExc
         /\ fs[TMP] = call.pre

\* C16, amended: export does not test membership in ImageType.  An img_type
\* without a .value attribute (the str 'png') fails with AttributeError and
\* the staging path is as it was; a member of another Enum whose value
\* names a writer of the QR code ('eps') is accepted and that format is
\* written to the staging path; the two members write PNG and SVG.
C16_ExportFailsOnlyWithoutValue ==
    ExportReturned =>
      /\ call.arg = "str.png" =>
            call.exc = "AttributeError" /\ fs[TMP] = call.pre
      /\ call.arg = "Other.EPS" =>
            call.exc = NoExc /\ fs[TMP] = File(call.txt, "eps")
      /\ call.arg = "ImageType.PNG" =>
            call.exc = NoExc /\ fs[TMP] = File(call.txt, "png")
      /\ call.arg = "ImageType.SVG" =>
            call.exc = NoExc /\ fs[TMP] = File(call.txt, "svg")

C16_Witness ==
    /\ ExportReturned
    /\ call.arg = "str.png" /\ call.exc = "AttributeError"
    /\ Exists(call.pre) /\ fs[TMP] = call.pre

\* C17: the scanner touches the clipboard only after the scan loop has
\* ended and only for a non-empty payload.  No step taken up to the return
\* of capture_data changes the clipboard; a run whose payload is the empty
\* string ends normally with no clipboard call made; and the one clipboard
\* method __init__ calls (the call that raises AttributeError) is called only
\* with self.data assigned and non-empty.
C17_ClipboardOnlyAfterNonEmptyCapture ==
    /\ [](entry = "qrscanner" =>
            /\ (data = TxtEmpty /\ ScanEnded /\ ~ScanInterrupted) =>
                  /\ spc = "done" /\ sexc = NoExc
                  /\ clipLog = <<>> /\ ~clipOpen
            /\ sexc = "AttributeError" =>
                  /\ data # None /\ data # TxtEmpty /\ spc = "crashed")
    /\ [][(entry = "qrscanner"
           /\ spc \in {"banner", "main", "capture_data", "while", "read", "decode", "assign"})
          => UNCHANGED cvars]_vars

C17_Witness ==
    /\ entry = "qrscanner"
    /\ pulled = << <<BytesEmpty>> >>
    /\ data = TxtEmpty /\ spc = "done" /\ sexc = NoExc
    /\ clipLog = <<>>

SetClipboardOrder ==
    <<"OpenClipboard", "EmptyClipboard", "SetClipboardText", "CloseClipboard">>

\* C18: set_clipboard(data) makes its clipboard calls in the order open,
\* empty, set text, close; the clipboard text changes only while the
\* clipboard is open; and when all four calls succeeded the clipboard holds
\* exactly data and is closed.
C18_SetClipboardOrderAndResult ==
    /\ []((entry = "client" /\ call.op = "set_clipboard") =>
            /\ Len(clipLog) <= 4
            /\ clipLog = SubSeq(SetClipboardOrder, 1, Len(clipLog))
            /\ (pc = "idle" /\ call.exc = NoExc) =>
                  /\ clipLog = SetClipboardOrder
                  /\ clipText = call.txt
                  /\ ~clipOpen)
    /\ [][clipText' # clipText => (clipOpen /\ clipOpen')]_vars

C18_Witness ==
    /\ entry = "client" /\ pc = "idle"
    /\ call.op = "set_clipboard" /\ call.exc = NoExc
    /\ clipLog = SetClipboardOrder
    /\ clipText = TxtXYZ123
    /\ ~clipOpen

====
